---------------------------- MODULE Spec2Model ----------------------------
(***************************************************************************)
(* N-Queens by incremental SAT enumeration (src/ex2-5.py, queens).         *)
(*                                                                         *)
(* The model follows queens(N, solver_name) line by line: the N <= 3       *)
(* short-circuit, the CNF encoding, the choice of the backend class, the   *)
(* loading of the clauses, and the solve / get_model / add_clause loop     *)
(* that blocks every model found.  The SAT backend is an external library: *)
(* it is modelled by its contract (solve() answers for the clauses added   *)
(* so far, get_model() returns the assignment found), with the choice of   *)
(* the assignment left open, and with the two ways a Python call can go    *)
(* wrong: it raises, or it returns a value that is neither True nor False. *)
(***************************************************************************)
EXTENDS Integers, Sequences, FiniteSets, Bags, TLC

\* Largest board for which every order in which the solver may return the
\* models is explored.
MaxFullN == 5

\* The largest board main() knows the number of solutions of (line 170).
MaxBoard == 8

\* if N <= 3: return 0 (line 24).
ShortCircuitMax == 3

----------------------------------------------------------------------------
(* Sequences *)

RECURSIVE Flatten(_)
Flatten(ss) ==
    IF Len(ss) = 0 THEN << >> ELSE Head(ss) \o Flatten(Tail(ss))

\* The sequence f as a list of its values.
List(f) == SubSeq(f, 1, Len(f))

Range(s) == { s[k] : k \in 1..Len(s) }

Abs(x) == IF x < 0 THEN -x ELSE x

----------------------------------------------------------------------------
(* The encoding, lines 29-78, of board size n.  Rows and columns are        *)
(* 0-based as in the code.                                                 *)

var(n, i, j) == i * n + j + 1

\* for k1 in range(len(vs)): for k2 in range(k1 + 1, len(vs)):
\*     cnf.append([-vs[k1], -vs[k2]])
Pairwise(vs) ==
    Flatten([k1 \in 1..Len(vs) |->
                [k \in 1..(Len(vs) - k1) |-> << -vs[k1], -vs[k1 + k] >>]])

\* Lines 36-44: one row's at-least-one clause, then its at-most-one clauses.
RowClauses(n, i) ==
    LET row_clause == List([j \in 1..n |-> var(n, i, j - 1)])
    IN  << row_clause >> \o Pairwise(row_clause)

\* Lines 47-50: one column's at-most-one clauses.
ColumnClauses(n, j) == Pairwise(List([i \in 1..n |-> var(n, i - 1, j)]))

\* Lines 55-59 with the test 0 < j < N.
DiagonalVarsOffByOne(n, d) ==
    LET rows == SelectSeq([i \in 1..n |-> i - 1],
                          LAMBDA i : 0 < i - d /\ i - d < n)
    IN  List([k \in 1..Len(rows) |-> var(n, rows[k], rows[k] - d)])

\* Lines 55-59: the cells (i, i - d) of the board, by increasing i.
DiagonalVars(n, d) ==
    LET rows == SelectSeq([i \in 1..n |-> i - 1],
                          LAMBDA i : 0 <= i - d /\ i - d < n)
    IN  List([k \in 1..Len(rows) |-> var(n, rows[k], rows[k] - d)])

\* Lines 69-73 with the test 0 < j < N.
AntiDiagonalVarsOffByOne(n, d) ==
    LET rows == SelectSeq([i \in 1..n |-> i - 1],
                          LAMBDA i : 0 < d - i /\ d - i < n)
    IN  List([k \in 1..Len(rows) |-> var(n, rows[k], d - rows[k])])

\* Lines 69-73: the cells (i, d - i) of the board, by increasing i.
AntiDiagonalVars(n, d) ==
    LET rows == SelectSeq([i \in 1..n |-> i - 1],
                          LAMBDA i : 0 <= d - i /\ d - i < n)
    IN  List([k \in 1..Len(rows) |-> var(n, rows[k], d - rows[k])])

\* The number of values of range(a, b).
RangeLen(a, b) == IF b > a THEN b - a ELSE 0

\* cnf.clauses after line 78.  Value t of range(-(N-1), N) is t - N, value t
\* of range(2*N - 1) is t - 1; both ranges are empty for N = 0.
Encode(n) ==
       Flatten([i \in 1..n |-> RowClauses(n, i - 1)])
    \o Flatten([j \in 1..n |-> ColumnClauses(n, j - 1)])
    \o Flatten([t \in 1..RangeLen(-(n - 1), n) |->
                   Pairwise(DiagonalVars(n, t - n))])
    \o Flatten([t \in 1..RangeLen(0, 2 * n - 1) |->
                   Pairwise(AntiDiagonalVars(n, t - 1))])

----------------------------------------------------------------------------
(* The solver's contract.  A model is the list get_model() returns: entry  *)
(* v is v when variable v is true and -v when it is false.                 *)

SatLit(m, l) == m[Abs(l)] = l

SatClause(m, c) == \E k \in 1..Len(c) : SatLit(m, c[k])

MaxVar(c) == IF Len(c) = 0 THEN 0
             ELSE CHOOSE v \in { Abs(c[k]) : k \in 1..Len(c) } :
                     \A k \in 1..Len(c) : Abs(c[k]) <= v

\* The assignments of S, which assign the variables below v, extended by
\* variable v, that satisfy the clauses whose largest variable is v.
ExtendBy(byMax, S, v) ==
    { x \in UNION { { Append(m, v), Append(m, -v) } : m \in S } :
        \A c \in byMax[v] : SatClause(x, c) }

\* The assignments of S, which assign the variables up to lo, extended to
\* the variables up to hi.
RECURSIVE Extend(_, _, _, _)
Extend(byMax, S, lo, hi) ==
    IF hi = lo THEN S
    ELSE IF hi = lo + 1 THEN ExtendBy(byMax, S, hi)
    ELSE LET mid == (lo + hi) \div 2
         IN  UNION { Extend(byMax, half, mid, hi) :
                       half \in { Extend(byMax, S, lo, mid) } }

\* The satisfying assignments of the set of clauses cs over the variables
\* 1..nv: a clause is decided as soon as its largest variable is assigned.
AllModels(cs, nv) ==
    IF \E c \in cs : MaxVar(c) = 0 \/ MaxVar(c) > nv
    THEN {}
    ELSE UNION { Extend(byMax, { << >> }, 0, nv) :
                   byMax \in { [v \in 1..nv |-> { c \in cs : MaxVar(c) = v }] } }

\* The encoding of every board size, its clauses as a set, and its
\* satisfying assignments.
Formula == [n \in 0..MaxBoard |-> Encode(n)]

FormulaClauses == [n \in 0..MaxBoard |-> Range(Formula[n])]

FormulaModels ==
    [n \in 0..MaxBoard |-> AllModels(FormulaClauses[n], n * n)]

\* known_results of main(), line 170.
known_results == (4 :> 2) @@ (5 :> 10) @@ (6 :> 4) @@ (7 :> 40) @@ (8 :> 92)

----------------------------------------------------------------------------
(* Strings are sequences of one-character strings, so that str.lower() is  *)
(* a function of the characters.                                           *)

Uppercase == << "A", "B", "C", "D", "E", "F", "G", "H", "I", "J", "K", "L", "M",
                "N", "O", "P", "Q", "R", "S", "T", "U", "V", "W", "X", "Y", "Z" >>

Lowercase == << "a", "b", "c", "d", "e", "f", "g", "h", "i", "j", "k", "l", "m",
                "n", "o", "p", "q", "r", "s", "t", "u", "v", "w", "x", "y", "z" >>

LowerChar(c) ==
    IF \E k \in 1..Len(Uppercase) : Uppercase[k] = c
    THEN Lowercase[CHOOSE k \in 1..Len(Uppercase) : Uppercase[k] = c]
    ELSE c

\* str.lower()
lower(s) == List([k \in 1..Len(s) |-> LowerChar(s[k])])

glucose3 == << "g", "l", "u", "c", "o", "s", "e", "3" >>
minisat  == << "m", "i", "n", "i", "s", "a", "t" >>
cadical  == << "c", "a", "d", "i", "c", "a", "l" >>

\* Lines 81-85.
solver_map ==
    [key \in { glucose3, minisat, cadical } |->
        IF key = glucose3 THEN "Glucose3"
        ELSE IF key = minisat THEN "Minisat22" ELSE "Cadical103"]

\* Lines 87-88: the name after the fallback.
FallbackName(name) ==
    IF lower(name) \notin DOMAIN solver_map THEN glucose3 ELSE name

\* Line 90 as solver_map[solver_name].
SolverClassNoLower(name) ==
    IF name \in DOMAIN solver_map THEN solver_map[name] ELSE "KeyError"

\* Line 90: solver_map[solver_name.lower()]; a missing key raises KeyError.
SolverClass(name) ==
    IF lower(name) \in DOMAIN solver_map THEN solver_map[lower(name)]
    ELSE "KeyError"

\* The solver names queens is called with.
SolverNames ==
    { glucose3, minisat,
      << "M", "I", "N", "I", "S", "A", "T" >>,
      << "c", "a", "D", "i", "C", "a", "l" >>,
      << "l", "i", "n", "g", "e", "l", "i", "n", "g" >>,
      << >> }

----------------------------------------------------------------------------
(* The solver session *)

\* The number of variables of a session: the largest one of its clauses.
NofVars(cs) ==
    IF cs = {} THEN 0
    ELSE CHOOSE v \in { MaxVar(c) : c \in cs } : \A c \in cs : MaxVar(c) <= v

\* The satisfying assignments of a session that holds the bag of clauses
\* cls.  A session that holds the encoding of board n and more clauses has
\* the models of the encoding that satisfy the other clauses.
SolverModels(cls, n) ==
    LET cs == BagToSet(cls)
    IN  IF FormulaClauses[n] \subseteq cs
        THEN UNION { { m \in FormulaModels[n] : \A c \in more : SatClause(m, c) } :
                       more \in { cs \ FormulaClauses[n] } }
        ELSE AllModels(cs, NofVars(cs))

\* m comes before o in the order of the assignments (variable 1 first,
\* false before true), compared from variable k on.
RECURSIVE BeforeFrom(_, _, _)
BeforeFrom(m, o, k) ==
    IF k > Len(m) THEN FALSE
    ELSE IF m[k] # o[k] THEN m[k] < o[k]
    ELSE BeforeFrom(m, o, k + 1)

Before(m, o) == BeforeFrom(m, o, 1)

First(S) == CHOOSE m \in S : \A o \in S : o = m \/ Before(m, o)

Last(S) == CHOOSE m \in S : \A o \in S : o = m \/ Before(o, m)

\* The search orders a session may have.  Which satisfying assignment a
\* backend returns is not specified: up to MaxFullN every choice at every
\* query is explored; on larger boards the session returns the first or
\* the last satisfying assignment throughout.
Orders(n) == IF n <= MaxFullN THEN { "any" } ELSE { "first", "last" }

Candidates(S, ord) ==
    IF ord = "first" THEN { First(S) }
    ELSE IF ord = "last" THEN { Last(S) } ELSE S

\* Lines 105-110 with the else branch appending lit.
BlockingClauseSigned(model) ==
    List([k \in 1..Len(model) |->
            IF model[k] > 0 THEN -model[k] ELSE model[k]])

\* Lines 105-110 without the else branch.
BlockingClausePositives(model) ==
    LET pos == SelectSeq(model, LAMBDA lit : lit > 0)
    IN  List([k \in 1..Len(pos) |-> -pos[k]])

\* Lines 105-110: both branches append -lit.
BlockingClause(model) ==
    List([k \in 1..Len(model) |->
            IF model[k] > 0 THEN -model[k] ELSE -model[k]])

----------------------------------------------------------------------------
VARIABLES
    N,               \* the argument N
    name_arg,        \* the argument solver_name, as passed
    solver_name,     \* the variable solver_name
    pc,              \* the line queens is at
    cnf,             \* cnf.clauses
    backend,         \* the class of the session, "none" before line 90
    order,           \* the search order of the session
    clauses,         \* the bag of the clauses added to the session
    li,              \* the position of the loop of line 93 in cnf.clauses
    found,           \* the assignment of the last Satisfiable answer
    solution_count,
    model,
    blocking_clause,
    result,          \* the value returned, "none" before the return
    fault,           \* "none", or how a solver call went wrong
    accepted,        \* the bag of the models counted so far
    created,         \* sessions constructed
    deleted,         \* calls of delete()
    solves,          \* calls of solve()
    sats,            \* Satisfiable answers
    unsat            \* an Unsatisfiable answer was given

vars == << N, name_arg, solver_name, pc, cnf, backend, order, clauses, li, found,
           solution_count, model, blocking_clause, result, fault, accepted,
           created, deleted, solves, sats, unsat >>

InitLocals ==
    /\ cnf = << >>
    /\ backend = "none"
    /\ order = "none"
    /\ clauses = EmptyBag
    /\ li = 1
    /\ found = << >>
    /\ solution_count = 0
    /\ model = << >>
    /\ blocking_clause = << >>
    /\ result = "none"
    /\ fault = "none"
    /\ accepted = EmptyBag
    /\ created = 0
    /\ deleted = 0
    /\ solves = 0
    /\ sats = 0
    /\ unsat = FALSE

\* A call queens(N, solver_name).
Init ==
    /\ N \in 0..MaxBoard
    /\ name_arg \in SolverNames
    /\ solver_name = name_arg
    /\ pc = "start"
    /\ InitLocals

\* Lines 24-25 with the test N < 3.
ShortCircuitBelow ==
    /\ pc = "start"
    /\ IF N < ShortCircuitMax
       THEN pc' = "done" /\ result' = 0
       ELSE pc' = "encode" /\ result' = result
    /\ UNCHANGED << N, name_arg, solver_name, cnf, backend, order, clauses,
                    li, found, solution_count, model, blocking_clause, fault,
                    accepted, created, deleted, solves, sats, unsat >>

\* Lines 24-25.
ShortCircuit ==
    /\ pc = "start"
    /\ IF N <= ShortCircuitMax
       THEN pc' = "done" /\ result' = 0
       ELSE pc' = "encode" /\ result' = result
    /\ UNCHANGED << N, name_arg, solver_name, cnf, backend, order, clauses,
                    li, found, solution_count, model, blocking_clause, fault,
                    accepted, created, deleted, solves, sats, unsat >>

\* Lines 29-78: cnf becomes Encode(N), read from its table Formula.
EncodeBoard ==
    /\ pc = "encode"
    /\ cnf' = Formula[N]
    /\ pc' = "select"
    /\ UNCHANGED << N, name_arg, solver_name, backend, order, clauses, li,
                    found, solution_count, model, blocking_clause, result,
                    fault, accepted, created, deleted, solves, sats, unsat >>

\* Lines 81-90: the fallback, then the construction of the session.
SelectSolver ==
    /\ pc = "select"
    /\ solver_name' = FallbackName(solver_name)
    /\ LET class == SolverClass(solver_name')
       IN  IF class = "KeyError"
           THEN /\ pc' = "raised"
                /\ fault' = "KeyError"
                /\ UNCHANGED << backend, order, created >>
           ELSE /\ pc' = "load"
                /\ backend' = class
                /\ order' \in Orders(N)
                /\ created' = created + 1
                /\ fault' = fault
    /\ li' = 1
    /\ UNCHANGED << N, name_arg, cnf, clauses, found, solution_count, model,
                    blocking_clause, result, accepted, deleted, solves, sats,
                    unsat >>

\* Lines 93-94, one clause.
LoadClause ==
    /\ pc = "load"
    /\ li <= Len(cnf)
    /\ clauses' = clauses (+) SetToBag({ cnf[li] })
    /\ li' = li + 1
    /\ UNCHANGED << N, name_arg, solver_name, pc, cnf, backend, order, found,
                    solution_count, model, blocking_clause, result, fault,
                    accepted, created, deleted, solves, sats, unsat >>

\* Line 94, add_clause raises.
LoadClauseRaises ==
    /\ pc = "load"
    /\ li <= Len(cnf)
    /\ pc' = "raised"
    /\ fault' = "add_clause"
    /\ UNCHANGED << N, name_arg, solver_name, cnf, backend, order, clauses,
                    li, found, solution_count, model, blocking_clause, result,
                    accepted, created, deleted, solves, sats, unsat >>

\* The end of the loop of line 93, and line 96.
LoadDone ==
    /\ pc = "load"
    /\ li > Len(cnf)
    /\ solution_count' = 0
    /\ pc' = "solve"
    /\ UNCHANGED << N, name_arg, solver_name, cnf, backend, order, clauses,
                    li, found, model, blocking_clause, result, fault,
                    accepted, created, deleted, solves, sats, unsat >>

\* Line 99, solve() answers True or False.
Solve ==
    /\ pc = "solve"
    /\ solves' = solves + 1
    /\ \E S \in { SolverModels(clauses, N) } :
           IF S = {}
           THEN /\ pc' = "delete"
                /\ unsat' = TRUE
                /\ UNCHANGED << found, sats >>
           ELSE /\ found' \in Candidates(S, order)
                /\ pc' = "get_model"
                /\ sats' = sats + 1
                /\ unsat' = unsat
    /\ UNCHANGED << N, name_arg, solver_name, cnf, backend, order, clauses,
                    li, solution_count, model, blocking_clause, result, fault,
                    accepted, created, deleted >>

\* Line 99, solve() raises.
SolveRaises ==
    /\ pc = "solve"
    /\ solves' = solves + 1
    /\ pc' = "raised"
    /\ fault' = "solve"
    /\ UNCHANGED << N, name_arg, solver_name, cnf, backend, order, clauses,
                    li, found, solution_count, model, blocking_clause, result,
                    accepted, created, deleted, sats, unsat >>

\* Line 99, solve() returns None, the answer of a query that was not
\* decided: the while test takes it for False.
SolveUndecided ==
    /\ pc = "solve"
    /\ solves' = solves + 1
    /\ pc' = "delete"
    /\ fault' = "undecided"
    /\ UNCHANGED << N, name_arg, solver_name, cnf, backend, order, clauses,
                    li, found, solution_count, model, blocking_clause, result,
                    accepted, created, deleted, sats, unsat >>

\* Lines 100-101 without line 100.
GetModelNoCount ==
    /\ pc = "get_model"
    /\ model' = found
    /\ accepted' = accepted (+) SetToBag({ found })
    /\ pc' = "block"
    /\ UNCHANGED << N, name_arg, solver_name, cnf, backend, order, clauses,
                    li, found, solution_count, blocking_clause, result, fault,
                    created, deleted, solves, sats, unsat >>

\* Lines 100-101.
GetModel ==
    /\ pc = "get_model"
    /\ solution_count' = solution_count + 1
    /\ model' = found
    /\ accepted' = accepted (+) SetToBag({ found })
    /\ pc' = "block"
    /\ UNCHANGED << N, name_arg, solver_name, cnf, backend, order, clauses,
                    li, found, blocking_clause, result, fault, created,
                    deleted, solves, sats, unsat >>

\* Lines 100-101, get_model() raises.
GetModelRaises ==
    /\ pc = "get_model"
    /\ solution_count' = solution_count + 1
    /\ pc' = "raised"
    /\ fault' = "get_model"
    /\ UNCHANGED << N, name_arg, solver_name, cnf, backend, order, clauses,
                    li, found, model, blocking_clause, result, accepted,
                    created, deleted, solves, sats, unsat >>

\* Lines 105-113.
AddBlockingClause ==
    /\ pc = "block"
    /\ blocking_clause' = BlockingClause(model)
    /\ clauses' = clauses (+) SetToBag({ blocking_clause' })
    /\ pc' = "solve"
    /\ UNCHANGED << N, name_arg, solver_name, cnf, backend, order, li, found,
                    solution_count, model, result, fault, accepted, created,
                    deleted, solves, sats, unsat >>

\* Lines 105-113, add_clause raises.
AddBlockingClauseRaises ==
    /\ pc = "block"
    /\ blocking_clause' = BlockingClause(model)
    /\ pc' = "raised"
    /\ fault' = "add_clause"
    /\ UNCHANGED << N, name_arg, solver_name, cnf, backend, order, clauses,
                    li, found, solution_count, model, result, accepted,
                    created, deleted, solves, sats, unsat >>

\* Lines 115-116.
DeleteAndReturn ==
    /\ pc = "delete"
    /\ deleted' = deleted + 1
    /\ result' = solution_count
    /\ pc' = "done"
    /\ UNCHANGED << N, name_arg, solver_name, cnf, backend, order, clauses,
                    li, found, solution_count, model, blocking_clause, fault,
                    accepted, created, solves, sats, unsat >>

Next ==
    \/ ShortCircuit
    \/ EncodeBoard
    \/ SelectSolver
    \/ LoadClause
    \/ LoadClauseRaises
    \/ LoadDone
    \/ Solve
    \/ SolveRaises
    \/ SolveUndecided
    \/ GetModel
    \/ GetModelRaises
    \/ AddBlockingClause
    \/ AddBlockingClauseRaises
    \/ DeleteAndReturn

Spec == Init /\ [][Next]_vars

----------------------------------------------------------------------------
(* The encoding and the enumeration without the short-circuit: queens      *)
(* entered at line 29 for the sizes the short-circuit answers.             *)

InitEncoding ==
    /\ N \in 0..ShortCircuitMax
    /\ name_arg \in SolverNames
    /\ solver_name = name_arg
    /\ pc = "encode"
    /\ InitLocals

NextEncoding ==
    \/ EncodeBoard
    \/ SelectSolver
    \/ LoadClause
    \/ LoadClauseRaises
    \/ LoadDone
    \/ Solve
    \/ SolveRaises
    \/ SolveUndecided
    \/ GetModel
    \/ GetModelRaises
    \/ AddBlockingClause
    \/ AddBlockingClauseRaises
    \/ DeleteAndReturn

SpecEncoding == InitEncoding /\ [][NextEncoding]_vars

----------------------------------------------------------------------------
(* queens(N) with the default solver_name and a solver whose calls all     *)
(* return, solve() with True or False.  queens is one sequential call:     *)
(* while a step is possible, one is taken.                                 *)

InitReliable ==
    /\ N \in 0..MaxBoard
    /\ name_arg = glucose3
    /\ solver_name = name_arg
    /\ pc = "start"
    /\ InitLocals

NextReliable ==
    \/ ShortCircuit
    \/ EncodeBoard
    \/ SelectSolver
    \/ LoadClause
    \/ LoadDone
    \/ Solve
    \/ GetModel
    \/ AddBlockingClause
    \/ DeleteAndReturn

SpecReliable ==
    InitReliable /\ [][NextReliable]_vars /\ WF_vars(NextReliable)

----------------------------------------------------------------------------
(* The board of a model *)

\* The cell of variable v: the inverse of variable(row, col) = row * n + col + 1.
Cell(n, v) == << (v - 1) \div n, (v - 1) % n >>

Queens(n, m) == { Cell(n, m[k]) : k \in { j \in 1..Len(m) : m[j] > 0 } }

ValidBoard(n, m) ==
    /\ Len(m) = n * n
    /\ \A k \in 1..Len(m) : m[k] \in { k, -k }
    /\ \A i \in 0..(n - 1) : Cardinality({ q \in Queens(n, m) : q[1] = i }) = 1
    /\ \A p, q \in Queens(n, m) :
          p # q => /\ p[2] # q[2]
                   /\ p[1] - p[2] # q[1] - q[2]
                   /\ p[1] + p[2] # q[1] + q[2]

\* name is key up to the case of its letters.
UpperChar(c) ==
    IF \E k \in 1..Len(Lowercase) : Lowercase[k] = c
    THEN Uppercase[CHOOSE k \in 1..Len(Lowercase) : Lowercase[k] = c]
    ELSE c

SameLetters(name, key) ==
    /\ Len(name) = Len(key)
    /\ \A k \in 1..Len(key) : name[k] \in { key[k], UpperChar(key[k]) }

ExpectedClass(name) ==
    IF SameLetters(name, minisat) THEN "Minisat22"
    ELSE IF SameLetters(name, cadical) THEN "Cadical103"
    ELSE "Glucose3"

NoFault == fault = "none"

----------------------------------------------------------------------------
(* Claims *)

\* C1: for N in 4..8 queens returns 2, 10, 4, 40, 92, whatever satisfying
\* assignment the solver returns at each query and whatever the backend.
C1_KnownCounts ==
    (pc = "done" /\ NoFault /\ N \in DOMAIN known_results)
        => result = known_results[N]

C1_Witness == pc = "done" /\ NoFault /\ N = 8 /\ result = 92

\* C2: for N <= 3 queens returns 0 at once: no session is constructed, no
\* clause is added and no query is made.
C2_ShortCircuit ==
    N <= 3 => /\ pc \in { "start", "done" }
              /\ pc = "done" => result = 0
              /\ created = 0
              /\ clauses = EmptyBag
              /\ solves = 0

C2_Witness == pc = "done" /\ N = 3 /\ result = 0

\* C3: every model counted decodes to a board with exactly one queen in
\* every row and no two queens on a column, a diagonal or an anti-diagonal.
C3_ValidBoards == pc = "block" => ValidBoard(N, model)

C3_Witness == pc = "block" /\ N = 8 /\ solution_count = 92

\* C4: no two models counted in one call are the same assignment.
C4_Distinct == \A m \in BagToSet(accepted) : CopiesIn(m, accepted) = 1

C4_Witness == pc = "block" /\ N = 5 /\ BagCardinality(accepted) = 10

\* C5: a solve() that raises or returns an answer that is neither True nor
\* False makes queens end with an error: the loop does not end as for
\* False and no count is returned.
C5_FaultSurfaced ==
    fault \in { "solve", "undecided" } => pc = "raised" /\ result = "none"

\* C6: when queens has ended, by a return or by an exception, every
\* session it constructed has been deleted exactly once.
C6_Released == pc \in { "done", "raised" } => deleted = created

\* C7: the backend is chosen by the name without regard to case, every
\* other name chooses Glucose3 without an error, and the count returned
\* does not depend on the name.
C7_Selection ==
    /\ fault # "KeyError"
    /\ backend # "none" => backend = ExpectedClass(name_arg)
    /\ (pc = "done" /\ NoFault)
          => result = (IF N <= 3 THEN 0 ELSE known_results[N])

C7_Witness ==
    /\ pc = "done" /\ NoFault /\ N = 4 /\ result = 2
    /\ name_arg = << "l", "i", "n", "g", "e", "l", "i", "n", "g" >>
    /\ backend = "Glucose3"

\* C8: for N in 0..3 the encoding enumerated by the loop gives
\* the count 0 as the short-circuit does.
C8_EncodingGivesZero == (pc = "done" /\ NoFault) => result = 0

C10_StepsLeft ==
    LET L == Len(Formula[N])
        M == Cardinality(FormulaModels[N])
    IN  CASE pc = "start"     -> 3 * M + L + 8
          [] pc = "encode"    -> 3 * M + L + 7
          [] pc = "select"    -> 3 * M + L + 6
          [] pc = "load"      -> 3 * M + (L + 1 - li) + 4
          [] pc = "solve"     -> 3 * Cardinality(SolverModels(clauses, N)) + 3
          [] pc = "get_model" -> 3 * Cardinality(SolverModels(clauses, N)) + 2
          [] pc = "block"     -> 3 * Cardinality(SolverModels(clauses, N)) + 1
          [] pc = "delete"    -> 1
          [] OTHER            -> 0

C10_Steps ==
    /\ solves > 0 => /\ Range(cnf) \subseteq BagToSet(clauses)
                     /\ li = Len(cnf) + 1
    /\ pc = "solve" => /\ solution_count = sats
                       /\ BagCardinality(clauses) = Len(cnf) + sats
    /\ pc = "get_model" => /\ solution_count = sats - 1
                           /\ BagCardinality(clauses) = Len(cnf) + sats - 1
    /\ pc = "block" => /\ solution_count = sats
                       /\ BagCardinality(clauses) = Len(cnf) + sats - 1
    /\ (pc = "done" /\ N > ShortCircuitMax) => unsat /\ result = sats

\* C10: with a solver that answers every query, queens ends (it has a next
\* step until it is done, and every step lowers the natural number
\* C10_StepsLeft); the clauses of the encoding are all added before the
\* first query, every Satisfiable answer is followed by one increment and
\* one added clause before the next query, nothing is added or asked after
\* Unsatisfiable, and the count returned is the number of Satisfiable
\* answers.
C10_Protocol ==
    /\ [](pc # "done" => ENABLED NextReliable)
    /\ [](C10_StepsLeft >= 0)
    /\ [][C10_StepsLeft' < C10_StepsLeft]_vars
    /\ []C10_Steps
    /\ [][unsat => clauses' = clauses /\ solves' = solves]_vars

C10_Witness == pc = "done" /\ N = 7 /\ sats = 40 /\ solves = 41 /\ result = 40

============================================================================
